---- MODULE Spec2Model ----
(***************************************************************************)
(* A model of the JMAP client core of effect-jmap: the session cache and   *)
(* the request dispatcher of src/core/JMAPClient.ts (makeJMAPClientLive).  *)
(*                                                                         *)
(* A caller is a fiber running one of the client's effects.  A fiber only  *)
(* suspends at an HTTP exchange, so every action below runs from one       *)
(* suspension point (or loop head) to the next.  The server and the        *)
(* transport are nondeterministic: every HTTP attempt either fails at      *)
(* transport level or yields a status and a body.                          *)
(*                                                                         *)
(* Optional values (null, undefined) are sequences of length 0 or 1.       *)
(* Time is counted in minutes.                                             *)
(***************************************************************************)
EXTENDS Integers, Sequences, FiniteSets, TLC

\* ------------------------------------------------------------ bounds

\* longest methodCalls list a caller passes to batch
MaxCalls == 4
\* largest configured maxBatchSize (the smallest is -1)
MaxBatch == 2
\* largest configured maxRetries
MaxRetriesCfg == 1
\* the clock stops at this minute
MaxTime == 6

\* the longest methodResponses list handed to extractMethodResponse
MaxResponses == 2

\* the longest list a fiber hands to batch when two fibers call the client
ConcCalls == 2

\* the minute the clock stops at when two fibers call the client
ConcTime == 1

\* ------------------------------------------------- program constants

\* 5 * 60 * 1000 ms, in minutes
TTL == 5
\* config.maxBatchSize ?? 50
DefaultMaxBatchSize == 50
\* config.maxRetries ?? 3
DefaultMaxRetries == 3

\* defaultConfig: timeout: 30000
DefaultTimeout == 30000

\* --------------------------------------------------------- optionals

None == <<>>

Some(x) == <<x>>

Min(a, b) == IF a < b THEN a ELSE b

Max(a, b) == IF a > b THEN a ELSE b

\* a missing property of a JSON object
Undefined == "undefined"

\* ------------------------------------------------------------ errors

NoResult ==
  [kind |-> "none", tag |-> "", message |-> "", status |-> None,
   type |-> "", description |-> None, callId |-> None, value |-> None]

\* Errors.network(message, cause, status)
NetworkError(message, status) ==
  [NoResult EXCEPT !.kind = "fail", !.tag = "NetworkError",
                   !.message = message, !.status = status]

\* Errors.authentication(message)
AuthenticationError(message) ==
  [NoResult EXCEPT !.kind = "fail", !.tag = "AuthenticationError",
                   !.message = message]

\* Errors.session(message, details)
SessionError(message) ==
  [NoResult EXCEPT !.kind = "fail", !.tag = "SessionError",
                   !.message = message]

\* the literals of the MethodErrorType schema
MethodErrorType ==
  { "accountNotFound", "accountNotSupportedByMethod", "accountReadOnly",
    "anchorNotFound", "cannotCalculateChanges", "forbidden",
    "fromAccountNotFound", "fromAccountNotSupportedByMethod",
    "invalidArguments", "invalidPatch", "invalidProperties", "notFound",
    "notJSON", "notRequest", "overQuota", "rateLimit", "requestTooLarge",
    "serverFail", "serverPartialFail", "serverUnavailable", "singleton",
    "tooLarge", "tooManyChanges", "unknownCapability", "unknownMethod",
    "unsupportedFilter", "unsupportedSort", "willDestroy" }

\* JMAPMethodError.fromMethodError(error, callId): the type is copied from
\* the payload as it is, the description when the payload has one
fromMethodError(error, callId) ==
  [NoResult EXCEPT !.kind = "fail", !.tag = "JMAPMethodError",
                   !.type = error.type,
                   !.description = IF "description" \in DOMAIN error
                                   THEN error.description ELSE None,
                   !.callId = Some(callId)]

\* an exception thrown inside the generator: a defect, not a typed failure
Defect(message) ==
  [NoResult EXCEPT !.kind = "die", !.tag = "Defect", !.message = message]

Succeed(v) == [NoResult EXCEPT !.kind = "ok", !.value = Some(v)]

\* ------------------------------------------------------- wire values

Procs == {1, 2}

\* the fibers that call the client in Spec: one caller, one call at a time
Callers == {1}

Statuses == {200, 201, 401, 500}

\* the Session objects the server hands out
Sessions ==
  { [apiUrl |-> "https://api/a", state |-> "sa"],
    [apiUrl |-> "https://api/b", state |-> "sb"] }

NoSession == [apiUrl |-> "", state |-> ""]

MethodNames == <<"A", "B", "C", "D", "E">>

\* the i-th invocation of a caller's list: [name, arguments, call id]
Call(i) == << MethodNames[((i - 1) % Len(MethodNames)) + 1], "args", ToString(i) >>

CallList(n) == [k \in 1..n |-> Call(k)]

DefaultUsing == << "urn:ietf:params:jmap:core", "urn:ietf:params:jmap:mail" >>

\* a result payload: a JSON object (with or without a type property) or null
Payload(isNull, type) == [isNull |-> isNull, type |-> type]

OkPayload == Payload(FALSE, Undefined)

\* what the server may put in an "error" invocation: an RFC type, a type
\* outside the enumeration, an object with no type, or null
ErrorPayloads ==
  { Payload(FALSE, "accountNotFound"), Payload(FALSE, "notAnRfcType"),
    Payload(FALSE, Undefined), Payload(TRUE, Undefined) }

Reverse(s) == [k \in 1..Len(s) |-> s[Len(s) + 1 - k]]

InOrder(cs) == [k \in 1..Len(cs) |-> << cs[k][1], OkPayload, cs[k][3] >>]

\* the j-th call answered by an "error" invocation
WithError(mrs, j, payload) ==
  [mrs EXCEPT ![j] = << "error", payload, mrs[j][3] >>]

\* the server's answers with no "error" invocation: every call answered in
\* order, or in reverse order, or no invocation at all
GoodAnswers(cs) == { InOrder(cs), Reverse(InOrder(cs)), <<>> }

\* the server's answers with "error" invocations: one call failed, with any
\* payload, or two calls failed with different payloads
ErrorAnswers(cs) ==
  { WithError(InOrder(cs), j, pl) : j \in 1..Len(cs), pl \in ErrorPayloads }
    \cup { WithError(WithError(InOrder(cs), j[1], Payload(FALSE, "accountNotFound")),
                     j[2], Payload(FALSE, "serverFail")) :
           j \in { x \in (1..Len(cs)) \X (1..Len(cs)) : x[1] # x[2] } }

Response(mrs, created, state) ==
  [methodResponses |-> mrs, createdIds |-> created, sessionState |-> state]

NoResponse == Response(<<>>, None, "")

Responses(cs) ==
  { Response(mrs, v[1], v[2]) : mrs \in GoodAnswers(cs),
                                v \in { <<None, "s1">>, <<Some("id1"), "s2">> } }
    \cup { Response(mrs, None, "s1") : mrs \in ErrorAnswers(cs) }

Reply(status, kind, payload) == [status |-> status, kind |-> kind, body |-> payload]

\* what the session endpoint may answer: a status other than 200, or 200
\* with a body that is unreadable, not JSON, JSON of another shape (apiUrl
\* missing), or a Session
SessionReplies ==
  { Reply(st, "none", NoSession) : st \in Statuses \ {200} }
    \cup { Reply(200, k, NoSession) : k \in {"unreadable", "notJSON", "badShape"} }
    \cup { Reply(200, "session", s) : s \in Sessions }

\* what the API endpoint may answer to a posted list of calls
ApiReplies(cs) ==
  { Reply(st, "none", NoResponse) : st \in Statuses \ {200} }
    \cup { Reply(200, k, NoResponse) : k \in {"unreadable", "notJSON", "badShape"} }
    \cup { Reply(200, "envelope", r) : r \in Responses(cs) }

\* ------------------------------------------------------------- state

VARIABLES
  config,        \* JMAPClientConfig, fixed at construction
  sessionState,  \* the closure's cache: None or Some([session, lastUpdated])
  now,           \* Date.now()
  proc,          \* per fiber: its position and the locals of its call
  hist,          \* per fiber: the record of its current call (history)
  prev,          \* per fiber: the summary of its previous call (history)
  extraction,    \* a call of extractMethodResponse: its arguments and result
  hierarchy,     \* a call of MailboxOperations.createHierarchy: its locals
  walk           \* a call of MailboxHelpers.getDepth and getAncestors

\* the programs that run on top of, or beside, the client
services == << extraction, hierarchy, walk >>

vars == << config, sessionState, now, proc, hist, prev, extraction,
           hierarchy, walk >>


\* config.maxBatchSize ?? 50
maxBatchSize == IF config.maxBatchSize = None THEN DefaultMaxBatchSize
                ELSE config.maxBatchSize[1]

\* Schedule.recurs(config.maxRetries ?? 3): the retries after a first attempt
maxRetries == IF config.maxRetries = None THEN DefaultMaxRetries
              ELSE config.maxRetries[1]

\* --------------------------------------------------- HTTP requests

\* a request with no header set; Authorization is the scheme and the token
NoHeaders ==
  [ContentType |-> Undefined, Authorization |-> <<>>, UserAgent |-> Undefined]

\* HttpClientRequest.get(url), HttpClientRequest.post(url)
HttpRequest(method, url) ==
  [method |-> method, url |-> url, urlParams |-> <<>>, headers |-> NoHeaders,
   body |-> None]

\* the closure's defaultHeaders
defaultHeaders ==
  [ContentType |-> "application/json",
   Authorization |-> << "Bearer", config.bearerToken >>,
   UserAgent |-> "effect-jmap/0.1.0"]

\* HttpClientRequest.setHeaders(headers)
setHeaders(req, headers) == [req EXCEPT !.headers = headers]

\* HttpBody.text(body, contentType): a body made without a content type is
\* not an application/json body
HttpBodyText(body, contentType) ==
  [body |-> body,
   contentType |-> IF contentType = Undefined THEN "text/plain" ELSE contentType]

\* HttpClientRequest.setBody(body): the request takes the content type of
\* its body
setBody(req, body) ==
  [req EXCEPT !.body = body.body, !.headers.ContentType = body.contentType]

\* config.timeout ? HttpClientRequest.setUrlParam('timeout', ...) : (req) => req
\* (0 is falsy)
setTimeoutParam(req, timeout) ==
  IF timeout = None \/ timeout = Some(0) THEN req
  ELSE [req EXCEPT !.urlParams = Append(@, << "timeout", timeout[1] >>)]

\* fetchSession's httpRequest
SessionHttpRequest ==
  setTimeoutParam(setHeaders(HttpRequest("GET", config.sessionUrl),
                             defaultHeaders),
                  config.timeout)

\* executeJMAPRequest's httpRequest; requestBody is JSON.stringify(request),
\* kept here as the request it encodes
ApiHttpRequest(session, request) ==
  setTimeoutParam(setBody(setHeaders(HttpRequest("POST", session.apiUrl),
                                     defaultHeaders),
                          HttpBodyText(request, Undefined)),
                  config.timeout)

\* the last thing an HTTP attempt of the call ended with: a transport
\* failure or a response (history)
NoEvent == [endpoint |-> "none", event |-> "none", status |-> 0, kind |-> "none"]

TransportFailure(endpoint) == [NoEvent EXCEPT !.endpoint = endpoint, !.event = "transport"]

Received(endpoint, reply) ==
  [endpoint |-> endpoint, event |-> "response", status |-> reply.status,
   kind |-> reply.kind]

IdleProc ==
  [pc |-> "idle", op |-> "none", methodCalls |-> <<>>, chunked |-> FALSE,
   chunks |-> <<>>, i |-> 0, ci |-> 0, request |-> None, session |-> None,
   req |-> None, schema |-> "none",
   attempt |-> 0, allResponses |-> <<>>, latestSessionState |-> "",
   result |-> NoResult]

\* The record of a call, kept for the properties only: the executeJMAPRequest
\* invocations, the logical POSTs (as they were sent), the exchanges that returned
\* an envelope to batch (their number, their methodResponses one after the
\* other, the sessionState of the last), the logical session fetches, the
\* POST exchanges in flight, the age of the cache when a getSession call
\* started, what the fiber's previous call was (for a batch: only whether a
\* 401 of the API ended it),
\* the last envelope received, the exchange failure (the chunk it hit, its
\* error), the session GETs as they were sent, and the last HTTP event.
NoHist ==
  [exchanges |-> 0, posts |-> <<>>, returned |-> 0, concat |-> <<>>,
   lastState |-> "", fetches |-> 0, inflight |-> 0, gets |-> <<>>,
   last |-> NoEvent,
   start |-> "absent", after |-> "other", envelope |-> None,
   failedAt |-> 0, failed |-> FALSE, failure |-> NoResult, got401 |-> FALSE]

\* what is remembered of a fiber's previous call: whether it was a getSession
\* that fetched once and succeeded, or a call ended by a 401 of the API
NoPrev == "other"

Summary(st, h) ==
  IF h.got401 THEN "api401"
  ELSE IF st.op = "getSession" /\ st.result.kind = "ok" /\ h.fetches = 1
  THEN "fetched"
  ELSE "other"

\* ------------------------------------------------------ session cache

\* getSession's test: the cache is null, or lastUpdated < fiveMinutesAgo
NeedsFetchNever(ss, t) == ss = None

NeedsFetchAlways(ss, t) == TRUE

NeedsFetchLate(ss, t) == ss = None \/ ss[1].lastUpdated < t - (TTL + 1)

NeedsFetch(ss, t) == ss = None \/ ss[1].lastUpdated < t - TTL

\* the age of a cache entry against the five minutes
Age(ss, t) ==
  IF ss = None THEN "absent"
  ELSE IF t - ss[1].lastUpdated < TTL THEN "within"
  ELSE IF t - ss[1].lastUpdated = TTL THEN "edge"
  ELSE "beyond"

\* sessionState = { session, lastUpdated: new Date() }
CachedAtZero(session, t) == Some([session |-> session, lastUpdated |-> 0])

Cached(session, t) == Some([session |-> session, lastUpdated |-> t])

\* a 401 of the session endpoint: fetchSession fails and does not assign
\* sessionState
ClearOnSession401(ss) == None

OnSession401(ss) == ss

\* sessionState = null on a 401 of the API endpoint
KeepOn401(ss) == ss

InvalidateOn401(ss) == None

\* ------------------------------------------------- exchange failures

\* Effect.retry(retrySchedule): Schedule.recurs(n) lets a failed attempt be
\* followed by another while fewer than n retries were made
RetryOneMore(attempt, retries) == attempt <= retries

Retry(attempt, retries) == attempt < retries

\* what fetchSession fails with on a response, NoResult when it does not fail
fetchSessionFailureAllNetwork(reply) ==
  IF reply.status = 401 THEN AuthenticationError("Invalid bearer token")
  ELSE IF reply.status # 200 THEN NetworkError("HTTP", Some(reply.status))
  ELSE IF reply.kind = "unreadable"
  THEN NetworkError("Failed to read response body", None)
  ELSE IF reply.kind = "notJSON" THEN NetworkError("Invalid JSON response", None)
  ELSE IF reply.kind = "badShape"
  THEN NetworkError("Invalid session response format", None)
  ELSE NoResult

fetchSessionFailure(reply) ==
  IF reply.status = 401 THEN AuthenticationError("Invalid bearer token")
  ELSE IF reply.status # 200 THEN NetworkError("HTTP", Some(reply.status))
  ELSE IF reply.kind = "unreadable"
  THEN NetworkError("Failed to read response body", None)
  ELSE IF reply.kind = "notJSON" THEN NetworkError("Invalid JSON response", None)
  ELSE IF reply.kind = "badShape"
  THEN SessionError("Invalid session response format")
  ELSE NoResult

\* what executeJMAPRequest fails with on a response, before the scan of the
\* envelope; NoResult when it does not fail
exchangeFailureAny2xx(reply) ==
  IF reply.status = 401
  THEN AuthenticationError("Bearer token expired or invalid")
  ELSE IF reply.status < 200 \/ reply.status >= 300
  THEN NetworkError("HTTP", Some(reply.status))
  ELSE IF reply.kind = "unreadable"
  THEN NetworkError("Failed to read response body", None)
  ELSE IF reply.kind = "notJSON" THEN NetworkError("Invalid JSON response", None)
  ELSE IF reply.kind = "badShape"
  THEN NetworkError("Invalid JMAP response format", None)
  ELSE NoResult

exchangeFailure(reply) ==
  IF reply.status = 401
  THEN AuthenticationError("Bearer token expired or invalid")
  ELSE IF reply.status # 200 THEN NetworkError("HTTP", Some(reply.status))
  ELSE IF reply.kind = "unreadable"
  THEN NetworkError("Failed to read response body", None)
  ELSE IF reply.kind = "notJSON" THEN NetworkError("Invalid JSON response", None)
  ELSE IF reply.kind = "badShape"
  THEN NetworkError("Invalid JMAP response format", None)
  ELSE NoResult

\* ------------------------------------------------------------- steps
\* A step takes and returns a world w = [st, h, ss]: the fiber's locals, the
\* record of its call, and the cache.

Finish(w, result) == [w EXCEPT !.st.pc = "done", !.st.result = result]

\* the for-of loop goes on with the next chunk although the exchange failed
PropagateSkip(w, err) ==
  IF w.st.chunked THEN [w EXCEPT !.st.pc = "forOf", !.st.ci = @ + 1]
  ELSE Finish(w, err)

\* yield* of a failed effect: the enclosing generator fails with its error
Propagate(w, err) == Finish(w, err)

Fail(w, err) ==
  Propagate([w EXCEPT !.h.failed = TRUE, !.h.failedAt = w.st.ci,
                      !.h.failure = err], err)

\* HttpClientRequest.post(session.apiUrl) ... httpClient.execute(httpRequest)
SendPost(w, session) ==
  [w EXCEPT !.st.pc = "apiPost", !.st.session = Some(session),
            !.st.attempt = 0,
            !.h.posts = Append(@, ApiHttpRequest(session, w.st.request[1])),
            !.h.inflight = @ + 1]

\* what follows "const session = yield* getSession"
AfterSession(w, session) ==
  IF w.st.op = "getSession" THEN Finish(w, Succeed(session))
  ELSE SendPost(w, session)

\* getSession: fetchSession when the cache is null or old, else the cache
getSession(w, t) ==
  IF NeedsFetch(w.ss, t)
  THEN [w EXCEPT !.st.pc = "sessGet", !.st.attempt = 0, !.h.fetches = @ + 1,
                 !.h.gets = Append(@, SessionHttpRequest)]
  ELSE AfterSession(w, w.ss[1].session)

executeJMAPRequest(w, t, request) ==
  getSession([w EXCEPT !.st.request = Some(request), !.st.session = None,
                       !.h.exchanges = @ + 1], t)

Request(using, methodCalls) ==
  [using |-> using, methodCalls |-> methodCalls, createdIds |-> None]

\* a Request as a caller of request may give it, createdIds optional
RequestWith(using, methodCalls, createdIds) ==
  [using |-> using, methodCalls |-> methodCalls, createdIds |-> createdIds]

\* the Requests handed to request: one call, or more calls than any
\* configured maxBatchSize, with and without createdIds
Requests ==
  { RequestWith(DefaultUsing, CallList(n), c) :
      n \in { 1, MaxBatch + 1 }, c \in { None, Some("id0") } }

\* the response schemas handed to request: the Response schema itself, and a
\* schema that wants createdIds
Schemas == { "Response", "ResponseWithCreatedIds" }

\* whether Schema.decodeUnknown(responseSchema)(jmapResponse) succeeds
Validates(schema, response) ==
  schema = "Response" \/ response.createdIds # None

\* what the decoding gives for an envelope that validates
DecodeUnknown(schema, response) == [schema |-> schema, decoded |-> response]

\* request: the envelope the exchange returned is decoded with the schema
DecodeEnvelope(w, response) ==
  IF Validates(w.st.schema, response)
  THEN Finish(w, Succeed(DecodeUnknown(w.st.schema, response)))
  ELSE Finish(w, NetworkError("Response does not match expected schema", None))

\* request hands a Request rebuilt from using and methodCalls to the exchange
ExecuteRequestRebuilt(w, t, req) ==
  executeJMAPRequest(w, t, Request(req.using, req.methodCalls))

\* const jmapResponse = yield* executeJMAPRequest(request)
ExecuteRequest(w, t, req) == executeJMAPRequest(w, t, req)

\* ---------------------------------------------------------- chunking

\* Array.prototype.slice(start, end), indices from 0, negative from the end
RelativeIndex(k, len) == IF k < 0 THEN Max(len + k, 0) ELSE Min(k, len)

SliceShort(s, start, end) ==
  LET from == RelativeIndex(start, Len(s))
      to   == RelativeIndex(end - 1, Len(s))
  IN  IF to > from THEN SubSeq(s, from + 1, to) ELSE <<>>

Slice(s, start, end) ==
  LET from == RelativeIndex(start, Len(s))
      to   == RelativeIndex(end, Len(s))
  IN  IF to > from THEN SubSeq(s, from + 1, to) ELSE <<>>

\* if (methodCalls.length > maxBatchSize)
ShouldChunkAlways(methodCalls, size) == TRUE

ShouldChunk(methodCalls, size) == Len(methodCalls) > size

\* the chunk loop is cut off once it has built more chunks than any list has
ChunkCap == MaxCalls + 1

\* allResponses.push(...chunkResponse.methodResponses)
PushAllFront(all, mrs) == mrs \o all

PushAll(all, mrs) == all \o mrs

\* latestSessionState = chunkResponse.sessionState
LatestSessionStateFirst(cur, chunkResponse) ==
  IF cur = "" THEN chunkResponse.sessionState ELSE cur

LatestSessionState(cur, chunkResponse) == chunkResponse.sessionState

\* the next iteration of the for-of loop starts once the awaited exchange
\* of the previous one has returned
LoopReadyNoAwait(st) == st.chunked /\ st.pc \in {"forOf", "apiPost"}

LoopReady(st) == st.pc = "forOf"

\* ---------------------------------------------------------- error scan

\* the index of the first invocation the scan fails on, 0 when there is none
FirstErrorHeadOnly(mrs) ==
  IF Len(mrs) > 0 /\ mrs[1][1] = "error" THEN 1 ELSE 0

\* the scan reports the last "error" invocation instead
LastError(mrs) ==
  LET E == { k \in 1..Len(mrs) : mrs[k][1] = "error" }
  IN  IF E = {} THEN 0 ELSE CHOOSE k \in E : \A j \in E : k >= j

FirstError(mrs) ==
  LET E == { k \in 1..Len(mrs) : mrs[k][1] = "error" }
  IN  IF E = {} THEN 0 ELSE CHOOSE k \in E : \A j \in E : k <= j

\* the exchange returned jmapResponse to batch
ExchangeReturned(w, response) ==
  LET w1 == [w EXCEPT !.h.returned = @ + 1,
                      !.h.concat = @ \o response.methodResponses,
                      !.h.lastState = response.sessionState]
  IN  IF w1.st.chunked
      THEN [w1 EXCEPT !.st.allResponses = PushAll(@, response.methodResponses),
                      !.st.latestSessionState = LatestSessionState(@, response),
                      !.st.ci = @ + 1,
                      !.st.pc = "forOf"]
      ELSE IF w1.st.op = "request" THEN DecodeEnvelope(w1, response)
      ELSE Finish(w1, Succeed(response))

\* for (const [methodName, result, callId] of jmapResponse.methodResponses)
ScanErrors(w, response) ==
  LET k == FirstError(response.methodResponses)
  IN  IF k = 0 THEN ExchangeReturned(w, response)
      ELSE IF response.methodResponses[k][2].isNull
           THEN Fail(w, Defect("TypeError: cannot read properties of null"))
           ELSE Fail(w, fromMethodError(response.methodResponses[k][2],
                                        response.methodResponses[k][3]))


\* ---------------------------------------------------- ResponseUtils

\* the results a response invocation may carry: whether the result validates
\* against the schema of the call, and what it holds
Results == { [valid |-> v, data |-> d] : v \in BOOLEAN, d \in {"x", "y"} }

ExtractNames == {"A", "B"}

ExtractIds == {"1", "2"}

\* the response invocations [name, result, call id]
Invocations == ExtractNames \X Results \X ExtractIds

\* the Responses handed to extractMethodResponse: methodResponses is a list
\* of invocations, or is missing
ExtractResponses ==
  { [methodResponses |-> Some(mrs)] :
      mrs \in UNION { [1..n -> Invocations] : n \in 0..MaxResponses } }
    \cup { [methodResponses |-> None] }

\* Schema.decodeUnknown(schema)(result), for a result that validates
Decode(result) == [decoded |-> result.data]

\* name === methodName && id === callId
MatchesNameOnly(invocation, methodName, callId) == invocation[1] = methodName

Matches(invocation, methodName, callId) ==
  invocation[1] = methodName /\ invocation[3] = callId

\* methodResponses.find(...): the index of the first match, 0 for undefined
Find(mrs, methodName, callId) ==
  LET M == { k \in 1..Len(mrs) : Matches(mrs[k], methodName, callId) }
  IN  IF M = {} THEN 0 ELSE CHOOSE k \in M : \A j \in M : k <= j

NoMethodResponses ==
  [type |-> "invalidArguments",
   description |-> << "No method responses in JMAP response" >>]

\* the method error made when find returns undefined
MethodResponseNotFoundAsNotFound(methodName) ==
  [type |-> "notFound",
   description |-> << "Method response not found for", methodName >>]

MethodResponseNotFound(methodName) ==
  [type |-> "serverFail",
   description |-> << "Method response not found for", methodName >>]

\* the method error made when the result does not decode
InvalidResponseFormat ==
  [type |-> "serverFail", description |-> << "Invalid response format" >>]

extractMethodResponse(response, methodName, callId) ==
  IF response.methodResponses = None
  THEN fromMethodError(NoMethodResponses, callId)
  ELSE LET mrs == response.methodResponses[1]
           k   == Find(mrs, methodName, callId)
       IN  IF k = 0
           THEN fromMethodError(MethodResponseNotFound(methodName), callId)
           ELSE IF ~mrs[k][2].valid
           THEN fromMethodError(InvalidResponseFormat, callId)
           ELSE Succeed(Decode(mrs[k][2]))

NoExtraction ==
  [response |-> [methodResponses |-> None], methodName |-> "", callId |-> "",
   out |-> NoResult]

\* no call of createHierarchy
NoHierarchy ==
  [pc |-> "none", accountId |-> "", path |-> <<>>, k |-> 0, parentId |-> None,
   created |-> <<>>, tempId |-> "", issued |-> <<>>, returned |-> <<>>,
   result |-> NoResult]

\* the properties of a Mailbox object that the operations read
Mailbox(id, name, parentId) == [id |-> id, name |-> name, parentId |-> parentId]

\* no call of getDepth or getAncestors
NoWalk ==
  [mailbox |-> Mailbox("", "", None), allMailboxes |-> <<>>,
   getDepth     |-> [pc |-> "none", depth |-> 0, current |-> None],
   getAncestors |-> [pc |-> "none", ancestors |-> <<>>,
                    current |-> Mailbox("", "", None)]]

\* ------------------------------------------------------------ actions

World(p) == [st |-> proc[p], h |-> hist[p], ss |-> sessionState]

Commit(p, w) ==
  /\ proc' = [proc EXCEPT ![p] = w.st]
  /\ hist' = [hist EXCEPT ![p] = w.h]
  /\ sessionState' = w.ss

\* the world a call starts in
Started(p, op, methodCalls) ==
  [st |-> [IdleProc EXCEPT !.op = op, !.methodCalls = methodCalls],
   h  |-> [NoHist EXCEPT
             !.start = IF op = "getSession" THEN Age(sessionState, now) ELSE @,
             !.after = IF op = "getSession" \/ prev[p] = "api401" THEN prev[p]
                       ELSE @],
   ss |-> sessionState]

\* a caller runs client.getSession
CallGetSession(p) ==
  /\ proc[p].pc = "idle"
  /\ Commit(p, getSession(Started(p, "getSession", <<>>), now))
  /\ prev' = [prev EXCEPT ![p] = NoPrev]
  /\ UNCHANGED << config, services, now >>

\* a caller runs client.batch(methodCalls) up to its first suspension
CallBatch(p, methodCalls) ==
  /\ proc[p].pc = "idle"
  /\ LET w == Started(p, "batch", methodCalls)
     IN  IF ShouldChunk(methodCalls, maxBatchSize)
         THEN Commit(p, [w EXCEPT !.st.pc = "chunking", !.st.chunked = TRUE])
         ELSE Commit(p, executeJMAPRequest(w, now,
                                           Request(DefaultUsing, methodCalls)))
  /\ prev' = [prev EXCEPT ![p] = NoPrev]
  /\ UNCHANGED << config, services, now >>

\* a caller runs client.request(req, responseSchema) up to its first
\* suspension
CallRequest(p, req, schema) ==
  /\ proc[p].pc = "idle"
  /\ LET w == Started(p, "request", req.methodCalls)
     IN  Commit(p, ExecuteRequest([w EXCEPT !.st.req = Some(req),
                                           !.st.schema = schema], now, req))
  /\ prev' = [prev EXCEPT ![p] = NoPrev]
  /\ UNCHANGED << config, services, now >>

\* one iteration of "for (let i = 0; i < methodCalls.length; i += maxBatchSize)",
\* or its exit to the for-of loop over the chunks
ChunkStep(p) ==
  /\ proc[p].pc = "chunking"
  /\ LET st == proc[p]
     IN  IF st.i < Len(st.methodCalls)
         THEN /\ Len(st.chunks) < ChunkCap
              /\ proc' = [proc EXCEPT ![p] =
                   [st EXCEPT !.chunks = Append(@, Slice(st.methodCalls, st.i,
                                                         st.i + maxBatchSize)),
                              !.i = @ + maxBatchSize]]
         ELSE proc' = [proc EXCEPT ![p] = [st EXCEPT !.pc = "forOf", !.ci = 1]]
  /\ UNCHANGED << config, services, sessionState, now, hist, prev >>

\* one iteration of "for (const chunk of chunks)" up to its suspension, or
\* the return of the combined response
ForOfStep(p) ==
  /\ LoopReady(proc[p])
  /\ LET w == World(p)
     IN  IF w.st.ci <= Len(w.st.chunks)
         THEN Commit(p, executeJMAPRequest(w, now,
                          Request(DefaultUsing, w.st.chunks[w.st.ci])))
         ELSE Commit(p, Finish(w, Succeed(Response(w.st.allResponses, None,
                                                   w.st.latestSessionState))))
  /\ UNCHANGED << config, services, now, prev >>

\* an attempt of the session GET fails at transport level: Effect.retry
\* runs it again, or the schedule is used up and catchAll makes a NetworkError
SessTransportFail(p) ==
  /\ proc[p].pc = "sessGet"
  /\ LET w == [World(p) EXCEPT !.h.last = TransportFailure("session")]
     IN  IF Retry(w.st.attempt, maxRetries)
         THEN Commit(p, [w EXCEPT !.st.attempt = @ + 1])
         ELSE Commit(p, Fail(w, NetworkError("Failed to connect to JMAP server",
                                             None)))
  /\ UNCHANGED << config, services, now, prev >>

\* the session GET is answered: the rest of fetchSession and what follows it
SessRespond(p, reply) ==
  /\ proc[p].pc = "sessGet"
  /\ LET w == [World(p) EXCEPT !.h.last = Received("session", reply)]
     IN  IF reply.status = 401
         THEN Commit(p, Fail([w EXCEPT !.ss = OnSession401(@)],
                             fetchSessionFailure(reply)))
         ELSE IF fetchSessionFailure(reply) # NoResult
         THEN Commit(p, Fail(w, fetchSessionFailure(reply)))
         ELSE Commit(p, AfterSession([w EXCEPT !.ss = Cached(reply.body, now)],
                                     reply.body))
  /\ UNCHANGED << config, services, now, prev >>

\* an attempt of the API POST fails at transport level
ApiTransportFail(p) ==
  /\ proc[p].pc = "apiPost"
  /\ LET w == [World(p) EXCEPT !.h.last = TransportFailure("api")]
     IN  IF Retry(w.st.attempt, maxRetries)
         THEN Commit(p, [w EXCEPT !.st.attempt = @ + 1])
         ELSE Commit(p, Fail([w EXCEPT !.h.inflight = @ - 1],
                             NetworkError("Failed to send JMAP request", None)))
  /\ UNCHANGED << config, services, now, prev >>

\* the API POST is answered: the rest of executeJMAPRequest and what batch
\* does with its result
ApiRespond(p, reply) ==
  /\ proc[p].pc = "apiPost"
  /\ LET w == [World(p) EXCEPT !.h.inflight = @ - 1,
                               !.h.last = Received("api", reply)]
     IN  IF reply.status = 401
         THEN Commit(p, Fail([w EXCEPT !.ss = InvalidateOn401(@),
                                       !.h.got401 = TRUE],
                             exchangeFailure(reply)))
         ELSE IF exchangeFailure(reply) # NoResult
         THEN Commit(p, Fail(w, exchangeFailure(reply)))
         ELSE Commit(p, ScanErrors([w EXCEPT !.h.envelope = Some(reply.body)],
                                   reply.body))
  /\ UNCHANGED << config, services, now, prev >>

\* the caller takes the result; its next call starts from scratch
Return(p) ==
  /\ proc[p].pc = "done"
  /\ prev' = [prev EXCEPT ![p] = Summary(proc[p], hist[p])]
  /\ proc' = [proc EXCEPT ![p] = IdleProc]
  /\ hist' = [hist EXCEPT ![p] = NoHist]
  /\ UNCHANGED << config, services, sessionState, now >>

\* a minute passes; synchronous code takes no time, so the clock moves only
\* while every fiber is suspended at an HTTP exchange or is not in a call
Tick ==
  /\ now < MaxTime
  /\ \A p \in Procs : proc[p].pc \in {"idle", "sessGet", "apiPost"}
  /\ now' = now + 1
  /\ UNCHANGED << config, services, sessionState, proc, hist, prev >>

\* the configurations a client is built with: every maxBatchSize with no
\* retry, every maxRetries with the default maxBatchSize, the default
\* timeout, and an empty session URL and bearer token
JMAPClientConfig(sessionUrl, bearerToken, timeout, retries, batchSize) ==
  [sessionUrl |-> sessionUrl, bearerToken |-> bearerToken, timeout |-> timeout,
   maxRetries |-> retries, maxBatchSize |-> batchSize]

Configs ==
  { JMAPClientConfig("https://jmap/session", "token", None, Some(0), b) :
      b \in {None} \cup { Some(k) : k \in (-1)..MaxBatch } }
    \cup { JMAPClientConfig("https://jmap/session", "token", None, r, None) :
      r \in {None} \cup { Some(k) : k \in 0..MaxRetriesCfg } }
    \cup { JMAPClientConfig("https://jmap/session", "token",
                             Some(DefaultTimeout), Some(0), None) }
    \cup { JMAPClientConfig("", "", None, Some(0), None) }

\* makeJMAPClientLive(config): let sessionState = null
Init ==
  /\ config \in Configs
  /\ sessionState = None
  /\ now = 0
  /\ proc = [p \in Procs |-> IdleProc]
  /\ hist = [p \in Procs |-> NoHist]
  /\ prev = [p \in Procs |-> NoPrev]
  /\ extraction = NoExtraction
  /\ hierarchy = NoHierarchy
  /\ walk = NoWalk

\* the body a pending POST carries
Posted(p) ==
  IF proc[p].request = None THEN <<>> ELSE proc[p].request[1].methodCalls

Next ==
  \/ Tick
  \/ \E p \in Callers : CallGetSession(p)
  \/ \E p \in Callers : \E n \in 0..MaxCalls : CallBatch(p, CallList(n))
  \/ \E p \in Callers : ChunkStep(p)
  \/ \E p \in Callers : ForOfStep(p)
  \/ \E p \in Callers : SessTransportFail(p)
  \/ \E p \in Callers : \E reply \in SessionReplies : SessRespond(p, reply)
  \/ \E p \in Callers : ApiTransportFail(p)
  \/ \E p \in Callers : \E reply \in ApiReplies(Posted(p)) : ApiRespond(p, reply)
  \/ \E p \in Callers : Return(p)

\* the operations of the returned service a caller can start (getSessionState
\* is getSession followed by a read of the Session it returned)
ClientCall(p) ==
  \/ CallGetSession(p)
  \/ \E n \in 0..MaxCalls : CallBatch(p, CallList(n))
  \/ \E req \in Requests : \E schema \in Schemas : CallRequest(p, req, schema)

Spec == Init /\ [][Next]_vars

\* ------------------------------------------------ overlapping calls

\* two fibers call the same client; their calls interleave at the HTTP
\* exchanges. The client does not retry and chunks by one; the endpoints
\* answer with a 401, a 500, a body of the wrong shape (session endpoint), or
\* well.
ConcConfigs ==
  { JMAPClientConfig("https://jmap/session", "token", None, Some(0), Some(1)) }

ConcSessionReplies ==
  { Reply(401, "none", NoSession), Reply(200, "badShape", NoSession) }
    \cup { Reply(200, "session", s) : s \in Sessions }

ConcApiReplies(cs) ==
  { Reply(401, "none", NoResponse), Reply(500, "none", NoResponse),
    Reply(200, "envelope", Response(InOrder(cs), None, "s1")) }

InitConc ==
  /\ config \in ConcConfigs
  /\ sessionState = None
  /\ now = 0
  /\ proc = [p \in Procs |-> IdleProc]
  /\ hist = [p \in Procs |-> NoHist]
  /\ prev = [p \in Procs |-> NoPrev]
  /\ extraction = NoExtraction
  /\ hierarchy = NoHierarchy
  /\ walk = NoWalk

\* a minute passes while every fiber is suspended or not in a call
TickConc ==
  /\ now < ConcTime
  /\ Tick

NextConc ==
  \/ TickConc
  \/ \E p \in Procs : CallGetSession(p)
  \/ \E p \in Procs : \E n \in 1..ConcCalls : CallBatch(p, CallList(n))
  \/ \E p \in Procs :
       CallRequest(p, RequestWith(DefaultUsing, CallList(1), None), "Response")
  \/ \E p \in Procs : ChunkStep(p)
  \/ \E p \in Procs : ForOfStep(p)
  \/ \E p \in Procs : SessTransportFail(p)
  \/ \E p \in Procs : \E reply \in ConcSessionReplies : SessRespond(p, reply)
  \/ \E p \in Procs : ApiTransportFail(p)
  \/ \E p \in Procs : \E reply \in ConcApiReplies(Posted(p)) : ApiRespond(p, reply)
  \/ \E p \in Procs : Return(p)

SpecConc == InitConc /\ [][NextConc]_vars

\* ------------------------------------------------------ request alone

\* the client with a caller that calls request only
NextRequest ==
  \/ Tick
  \/ \E p \in Callers : \E req \in Requests : \E schema \in Schemas :
       CallRequest(p, req, schema)
  \/ \E p \in Callers : SessTransportFail(p)
  \/ \E p \in Callers : \E reply \in SessionReplies : SessRespond(p, reply)
  \/ \E p \in Callers : ApiTransportFail(p)
  \/ \E p \in Callers : \E reply \in ApiReplies(Posted(p)) : ApiRespond(p, reply)
  \/ \E p \in Callers : Return(p)

SpecRequest == Init /\ [][NextRequest]_vars

\* --------------------------------------- extractMethodResponse alone

\* a service is about to extract (methodName, callId) from a Response
InitExtract ==
  /\ config = JMAPClientConfig("https://jmap/session", "token", None, None, None)
  /\ sessionState = None
  /\ now = 0
  /\ proc = [p \in Procs |-> IdleProc]
  /\ hist = [p \in Procs |-> NoHist]
  /\ prev = [p \in Procs |-> NoPrev]
  /\ extraction \in { [response |-> r, methodName |-> n, callId |-> c,
                        out |-> NoResult] :
                         r \in ExtractResponses, n \in ExtractNames,
                         c \in ExtractIds }
  /\ hierarchy = NoHierarchy
  /\ walk = NoWalk

Extract ==
  /\ extraction.out = NoResult
  /\ extraction' = [extraction EXCEPT !.out =
       extractMethodResponse(extraction.response, extraction.methodName,
                             extraction.callId)]
  /\ UNCHANGED << config, sessionState, now, proc, hist, prev, hierarchy,
                  walk >>

NextExtract == Extract

SpecExtract == InitExtract /\ [][NextExtract]_vars


\* ---------------------------------------------------- mailbox service

\* the longest path handed to createHierarchy
MaxPath == 3

MailboxNames == {"Projects", "Work"}

\* the ids the server gives to the mailboxes it creates
MailboxIds == {"folder-1", "folder-2"}

\* a JSON object used as a map: a set of [key, value] entries, one per key
Lookup(map, key) ==
  IF \E e \in map : e.key = key
  THEN Some((CHOOSE e \in map : e.key = key).value)
  ELSE None

\* const tempId = `temp-${Date.now()}`
TempId(t) == "temp-" \o ToString(t)

\* set(args): const callId = `mailbox-set-${Date.now()}`, then
\* client.batch([['Mailbox/set', args, callId]])
MailboxSetCall(args, t) == << "Mailbox/set", args, "mailbox-set-" \o ToString(t) >>

\* create(accountId, mailbox): set({ accountId, create: { [tempId]: mailbox } })
CreateArguments(accountId, tempId, mailbox) ==
  [accountId |-> accountId, create |-> { [key |-> tempId, value |-> mailbox] }]

\* { type: 'serverFail', description: 'Unknown error creating mailbox' }
UnknownErrorCreating ==
  [type |-> "serverFail", description |-> << "Unknown error creating mailbox" >>]

\* the rest of create once set has returned: the failure of set, a method
\* error when created has no entry for tempId, or the created mailbox
CreateResult(outcome, tempId) ==
  IF outcome.kind # "ok"
  THEN outcome
  ELSE LET result     == outcome.value[1]
           made       == IF result.created = None THEN None
                         ELSE Lookup(result.created[1], tempId)
           notCreated == IF result.notCreated = None THEN None
                         ELSE Lookup(result.notCreated[1], tempId)
       IN  IF made = None
           THEN fromMethodError(IF notCreated # None THEN notCreated[1]
                                ELSE UnknownErrorCreating,
                                "create-" \o tempId)
           ELSE Succeed(made[1])

\* parentId = mailbox.id
ParentIdKept(parentId, mailbox) == parentId

ParentIdAfter(parentId, mailbox) == Some(mailbox.id)

\* the MailboxSetResponse objects a Mailbox/set with one create may decode to
MailboxSetResponse(created, notCreated) ==
  [created |-> created, notCreated |-> notCreated]

\* what set may return for a create under tempId: the failure of
\* client.batch or of extractMethodResponse, or a MailboxSetResponse in which
\* the server reports the mailbox created (under any id, with the properties
\* that were sent), not created, created under another key, or nothing
SetOutcomes(tempId, mailbox) ==
  { NetworkError("Failed to send JMAP request", None),
    fromMethodError(InvalidResponseFormat, "mailbox-set") }
    \cup { Succeed(MailboxSetResponse(
                     Some({ [key |-> tempId,
                             value |-> Mailbox(id, mailbox.name, mailbox.parentId)] }),
                     None)) : id \in MailboxIds }
    \cup { Succeed(MailboxSetResponse(None,
                     Some({ [key |-> tempId, value |-> [type |-> "forbidden"]] }))),
           Succeed(MailboxSetResponse(
                     Some({ [key |-> "temp-other",
                             value |-> Mailbox("folder-1", mailbox.name,
                                               mailbox.parentId)] }),
                     None)),
           Succeed(MailboxSetResponse(None, None)) }

\* createHierarchy(accountId, path): let parentId = null; const created = []
createHierarchy(accountId, path) ==
  [NoHierarchy EXCEPT !.pc = "forOf", !.accountId = accountId, !.path = path,
                      !.k = 1]

Paths == UNION { [1..n -> MailboxNames] : n \in 0..MaxPath }

InitHierarchy ==
  /\ config = JMAPClientConfig("https://jmap/session", "token", None, None, None)
  /\ sessionState = None
  /\ now = 0
  /\ proc = [p \in Procs |-> IdleProc]
  /\ hist = [p \in Procs |-> NoHist]
  /\ prev = [p \in Procs |-> NoPrev]
  /\ extraction = NoExtraction
  /\ hierarchy \in { createHierarchy("account-1", path) : path \in Paths }
  /\ walk = NoWalk

\* one iteration of "for (const name of path)" up to the call of client.batch
\* inside service.create, or the return of the created list
HierarchyStep ==
  /\ hierarchy.pc = "forOf"
  /\ LET h == hierarchy
     IN  IF h.k <= Len(h.path)
         THEN LET tempId  == TempId(now)
                  mailbox == [name |-> h.path[h.k], parentId |-> h.parentId,
                              sortOrder |-> 0]
              IN  hierarchy' =
                    [h EXCEPT !.pc = "set", !.tempId = tempId,
                              !.issued = Append(@, MailboxSetCall(
                                 CreateArguments(h.accountId, tempId, mailbox),
                                 now))]
         ELSE hierarchy' = [h EXCEPT !.pc = "done", !.result = Succeed(h.created)]
  /\ UNCHANGED << config, sessionState, now, proc, hist, prev, extraction, walk >>

\* set returns to create: the rest of create and of the loop iteration
SetReturned(outcome) ==
  /\ hierarchy.pc = "set"
  /\ LET h      == hierarchy
         result == CreateResult(outcome, h.tempId)
     IN  IF result.kind # "ok"
         THEN hierarchy' = [h EXCEPT !.pc = "done", !.result = result,
                                     !.returned = Append(@, outcome)]
         ELSE hierarchy' =
                [h EXCEPT !.pc = "forOf", !.k = @ + 1,
                          !.created = Append(@, result.value[1]),
                          !.parentId = ParentIdAfter(@, result.value[1]),
                          !.returned = Append(@, outcome)]
  /\ UNCHANGED << config, sessionState, now, proc, hist, prev, extraction, walk >>

\* the mailbox the pending create has sent
Sent(h) == (CHOOSE e \in h.issued[Len(h.issued)][2].create : TRUE).value

NextHierarchy ==
  \/ Tick
  \/ HierarchyStep
  \/ /\ hierarchy.pc = "set"
     /\ \E outcome \in SetOutcomes(hierarchy.tempId, Sent(hierarchy)) :
          SetReturned(outcome)

SpecHierarchy == InitHierarchy /\ [][NextHierarchy]_vars

\* ---------------------------------------------------- mailbox helpers

\* the longest allMailboxes list handed to the helpers
MaxList == 2

WalkIds == {"inbox", "folder1"}

\* parentId: null, the id of a mailbox, or an id no mailbox has
WalkParents == {None} \cup { Some(id) : id \in WalkIds \cup {"gone"} }

WalkMailboxes == { Mailbox(id, id, parentId) : id \in WalkIds, parentId \in WalkParents }

MailboxLists == UNION { [1..n -> WalkMailboxes] : n \in 0..MaxList }

\* the truth value JavaScript gives to mailbox.parentId: null and "" are falsy
HasParentId(mailbox) == mailbox.parentId # None /\ mailbox.parentId[1] # ""

\* allMailboxes.find(m => m.id === current.parentId): the first match, or
\* undefined
FindParent(allMailboxes, current) ==
  LET K == { k \in 1..Len(allMailboxes) :
               Some(allMailboxes[k].id) = current.parentId }
  IN  IF K = {} THEN None
      ELSE Some(allMailboxes[CHOOSE k \in K : \A j \in K : k <= j])

\* let depth = 0; let current = mailbox
getDepth(mailbox) == [pc |-> "while", depth |-> 0, current |-> Some(mailbox)]

\* const ancestors = []; let current = mailbox
getAncestors(mailbox) == [pc |-> "while", ancestors |-> <<>>, current |-> mailbox]

\* the loops are cut off after more iterations than any walk that ends makes
WalkCap == MaxList + 2

InitWalk ==
  /\ config = JMAPClientConfig("https://jmap/session", "token", None, None, None)
  /\ sessionState = None
  /\ now = 0
  /\ proc = [p \in Procs |-> IdleProc]
  /\ hist = [p \in Procs |-> NoHist]
  /\ prev = [p \in Procs |-> NoPrev]
  /\ extraction = NoExtraction
  /\ hierarchy = NoHierarchy
  /\ walk \in { [mailbox |-> m, allMailboxes |-> all,
                 getDepth |-> getDepth(m), getAncestors |-> getAncestors(m)] :
                  m \in WalkMailboxes, all \in MailboxLists }

\* one test of "while (current && current.parentId)" in getDepth and the
\* iteration or the return that follows it
getDepthStep ==
  /\ walk.getDepth.pc = "while"
  /\ LET d == walk.getDepth
     IN  IF d.current # None /\ HasParentId(d.current[1])
         THEN /\ d.depth < WalkCap
              /\ walk' = [walk EXCEPT !.getDepth =
                   [d EXCEPT !.depth = @ + 1,
                             !.current = FindParent(walk.allMailboxes,
                                                    d.current[1])]]
         ELSE walk' = [walk EXCEPT !.getDepth.pc = "done"]
  /\ UNCHANGED << config, sessionState, now, proc, hist, prev, extraction,
                  hierarchy >>

\* one test of "while (current.parentId)" in getAncestors and the iteration,
\* the break or the return that follows it
getAncestorsStep ==
  /\ walk.getAncestors.pc = "while"
  /\ LET a      == walk.getAncestors
         parent == FindParent(walk.allMailboxes, a.current)
     IN  IF HasParentId(a.current) /\ parent # None
         THEN /\ Len(a.ancestors) < WalkCap
              /\ walk' = [walk EXCEPT !.getAncestors =
                   [a EXCEPT !.ancestors = << parent[1] >> \o @,
                             !.current = parent[1]]]
         ELSE walk' = [walk EXCEPT !.getAncestors.pc = "done"]
  /\ UNCHANGED << config, sessionState, now, proc, hist, prev, extraction,
                  hierarchy >>

NextWalk ==
  \/ getDepthStep
  \/ getAncestorsStep

SpecWalk == InitWalk /\ [][NextWalk]_vars

\* -------------------------------------------------------- properties

RECURSIVE Flatten(_)
Flatten(ss) == IF ss = <<>> THEN <<>> ELSE Head(ss) \o Flatten(Tail(ss))

Ceil(n, m) == (n + m - 1) \div m

\* the positions of the "error" invocations of a list of method responses
ErrorPositions(mrs) == { k \in 1..Len(mrs) : mrs[k][1] = "error" }

\* C1: a batch call whose list is no longer than maxBatchSize (the empty list
\* included) runs executeJMAPRequest once: it sends at most one logical POST,
\* which carries the whole list in input order; it has sent exactly one when
\* it ends, unless the session could not be obtained; and when it succeeds
\* its result is the envelope of that exchange, unchanged.
C1_SingleExchange ==
  \A p \in Procs :
    LET st == proc[p]
        h  == hist[p]
    IN  (st.op = "batch" /\ Len(st.methodCalls) <= maxBatchSize) =>
          /\ h.exchanges <= 1
          /\ Len(h.posts) <= 1
          /\ \A k \in 1..Len(h.posts) : h.posts[k].body.methodCalls = st.methodCalls
          /\ st.pc = "done" =>
               /\ h.exchanges = 1
               /\ st.session # None => Len(h.posts) = 1
               /\ st.result.kind = "ok" =>
                    /\ Len(h.posts) = 1
                    /\ h.envelope # None
                    /\ st.result.value = h.envelope

\* a batch of exactly maxBatchSize = 2 calls has succeeded with one POST
C1_Witness ==
  \E p \in Procs :
    /\ proc[p].op = "batch" /\ proc[p].pc = "done"
    /\ maxBatchSize = 2 /\ Len(proc[p].methodCalls) = 2
    /\ proc[p].result.kind = "ok"
    /\ Len(hist[p].posts) = 1

\* C2: with maxBatchSize >= 1, a batch call whose list has n > maxBatchSize
\* calls cuts it into ceil(n / maxBatchSize) contiguous chunks, in order,
\* whose concatenation is the list, every chunk but the last of exactly
\* maxBatchSize calls and the last of 1..maxBatchSize; the k-th POST carries
\* the k-th chunk; and when every chunk succeeds exactly ceil(n /
\* maxBatchSize) exchanges were issued, one per chunk.
C2_Chunks ==
  \A p \in Procs :
    LET st == proc[p]
        h  == hist[p]
        n  == Len(st.methodCalls)
        m  == maxBatchSize
    IN  (st.op = "batch" /\ m >= 1 /\ n > m /\ st.pc # "chunking") =>
          /\ Len(st.chunks) = Ceil(n, m)
          /\ Flatten(st.chunks) = st.methodCalls
          /\ \A k \in 1..(Len(st.chunks) - 1) : Len(st.chunks[k]) = m
          /\ Len(st.chunks[Len(st.chunks)]) \in 1..m
          /\ h.exchanges <= Ceil(n, m)
          /\ Len(h.posts) <= h.exchanges
          /\ \A k \in 1..Len(h.posts) : h.posts[k].body.methodCalls = st.chunks[k]
          /\ (st.pc = "done" /\ st.result.kind = "ok") =>
               /\ h.exchanges = Ceil(n, m)
               /\ Len(h.posts) = Ceil(n, m)

\* three calls with maxBatchSize = 2 have succeeded: POSTs of 2 and 1 calls
C2_Witness ==
  \E p \in Procs :
    /\ proc[p].op = "batch" /\ proc[p].pc = "done"
    /\ proc[p].result.kind = "ok"
    /\ maxBatchSize = 2 /\ Len(proc[p].methodCalls) = 3
    /\ Len(hist[p].posts) = 2
    /\ Len(hist[p].posts[1].body.methodCalls) = 2
    /\ Len(hist[p].posts[2].body.methodCalls) = 1

\* C3: when a chunked batch call succeeds, the methodResponses of its result
\* are the methodResponses of the chunks' envelopes one after the other, in
\* chunk order, and every chunk has returned one.
C3_Concatenation ==
  \A p \in Procs :
    LET st == proc[p]
        h  == hist[p]
    IN  (st.op = "batch" /\ st.chunked /\ st.pc = "done" /\ st.result.kind = "ok") =>
          /\ st.result.value[1].methodResponses = h.concat
          /\ h.returned = Len(st.chunks)

\* a chunked batch of at least two chunks has succeeded, the first chunk
\* answered and the last one answered by an empty list
C3_Witness ==
  \E p \in Procs :
    /\ proc[p].op = "batch" /\ proc[p].chunked /\ proc[p].pc = "done"
    /\ proc[p].result.kind = "ok"
    /\ Len(proc[p].chunks) >= 2
    /\ proc[p].result.value[1].methodResponses # <<>>
    /\ hist[p].envelope[1].methodResponses = <<>>

\* C4: when a chunked batch call succeeds, the sessionState of its result is
\* the sessionState of the last chunk's envelope.
C4_LastSessionState ==
  \A p \in Procs :
    LET st == proc[p]
        h  == hist[p]
    IN  (st.op = "batch" /\ st.chunked /\ st.pc = "done" /\ st.result.kind = "ok"
           /\ h.returned >= 1) =>
          /\ st.result.value[1].sessionState = h.lastState
          /\ h.lastState = h.envelope[1].sessionState

\* a chunked batch of at least two chunks has succeeded, and its last
\* envelope carried the sessionState "s2"
C4_Witness ==
  \E p \in Procs :
    /\ proc[p].op = "batch" /\ proc[p].chunked /\ proc[p].pc = "done"
    /\ proc[p].result.kind = "ok"
    /\ hist[p].returned >= 2
    /\ hist[p].envelope[1].sessionState = "s2"

\* C5: within one batch call at most one POST exchange is in flight; the
\* k-th POST carries the k-th chunk; and while the exchange of chunk k runs
\* (its session fetch or its POST), the exchanges of the chunks 1..k-1, and
\* no other, have been started and have returned.
C5_Sequential ==
  \A p \in Procs :
    LET st == proc[p]
        h  == hist[p]
    IN  st.op = "batch" =>
          /\ h.inflight <= 1
          /\ h.inflight = 1 <=> st.pc = "apiPost"
          /\ (st.chunked /\ st.pc \in {"sessGet", "apiPost"}) =>
               /\ h.exchanges = st.ci
               /\ h.returned = st.ci - 1
               /\ Len(h.posts) = IF st.pc = "apiPost" THEN st.ci ELSE st.ci - 1
          /\ st.chunked =>
               \A k \in 1..Len(h.posts) : h.posts[k].body.methodCalls = st.chunks[k]

\* the POST of the second chunk is in flight
C5_Witness ==
  \E p \in Procs :
    /\ proc[p].op = "batch" /\ proc[p].chunked
    /\ proc[p].pc = "apiPost" /\ proc[p].ci = 2

\* C6: when the exchange of chunk k of a chunked batch call fails, the call
\* has ended with that exchange's error, no exchange was started for a chunk
\* after k, and the result carries no value.
C6_FirstFailure ==
  \A p \in Procs :
    LET st == proc[p]
        h  == hist[p]
    IN  (st.op = "batch" /\ st.chunked /\ h.failed) =>
          /\ st.pc = "done"
          /\ st.result = h.failure
          /\ st.result.kind \in {"fail", "die"}
          /\ st.result.value = None
          /\ h.exchanges = h.failedAt
          /\ Len(h.posts) <= h.failedAt

\* the second of at least three chunks failed after the first had returned
\* method responses
C6_Witness ==
  \E p \in Procs :
    /\ proc[p].op = "batch" /\ proc[p].chunked /\ hist[p].failed
    /\ hist[p].failedAt = 2 /\ Len(proc[p].chunks) >= 3
    /\ hist[p].concat # <<>>
    /\ proc[p].pc = "done"

\* C7: when an exchange of a batch call has received a well-formed envelope
\* that holds "error" invocations, the call has ended and not with a
\* result; when the payload of the first of them is an object, it has failed
\* with a method error whose call id and type are those of that invocation;
\* so when the envelope holds one "error" invocation, of call id X, next to
\* successful ones, the method error's callId is X.
C7_MethodError ==
  \A p \in Procs :
    LET st  == proc[p]
        h   == hist[p]
        mrs == h.envelope[1].methodResponses
        E   == ErrorPositions(mrs)
    IN  (st.op = "batch" /\ h.envelope # None /\ E # {}) =>
          /\ st.pc = "done"
          /\ st.result.kind # "ok"
          /\ \A k \in E :
               ((\A j \in E : k <= j) /\ ~mrs[k][2].isNull) =>
                 /\ st.result.kind = "fail"
                 /\ st.result.tag = "JMAPMethodError"
                 /\ st.result.callId = Some(mrs[k][3])
                 /\ st.result.type = mrs[k][2].type
                 /\ st.result.value = None

\* an envelope whose second invocation is the only "error", after a
\* successful first one, made the call fail with "accountNotFound"
C7_Witness ==
  \E p \in Procs :
    /\ proc[p].op = "batch" /\ proc[p].pc = "done"
    /\ hist[p].envelope # None
    /\ ErrorPositions(hist[p].envelope[1].methodResponses) = {2}
    /\ proc[p].result.tag = "JMAPMethodError"
    /\ proc[p].result.type = "accountNotFound"
    /\ proc[p].result.callId = Some("2")

\* C8: a getSession call that starts inside the freshness window of the
\* cached session fetches nothing and returns the cached session, so a
\* getSession that fetched once and the getSession that follows it inside
\* the window make one fetch between them; a getSession call that starts
\* after the window has elapsed makes one fetch and, when it succeeds, the
\* cache holds its result with the time of the fetch.
C8_FetchOncePerWindow ==
  \A p \in Procs :
    LET st == proc[p]
        h  == hist[p]
    IN  st.op = "getSession" =>
          /\ h.start = "within" =>
               /\ st.pc = "done"
               /\ h.fetches = 0
               /\ sessionState # None
               /\ st.result = Succeed(sessionState[1].session)
          /\ (h.after = "fetched" /\ h.start = "within") => 1 + h.fetches = 1
          /\ h.start = "beyond" =>
               /\ h.fetches = 1
               /\ (st.pc = "done" /\ st.result.kind = "ok") =>
                    sessionState = Cached(st.result.value[1], now)

\* the getSession after a getSession that fetched has returned the cache
C8_Witness ==
  \E p \in Procs :
    /\ proc[p].op = "getSession" /\ proc[p].pc = "done"
    /\ hist[p].after = "fetched" /\ hist[p].start = "within"
    /\ hist[p].fetches = 0 /\ proc[p].result.kind = "ok"

\* C9 as stated: getSession returns the cache without a fetch only when
\* now - lastUpdated < 5 minutes.
C9_Original ==
  \A p \in Procs :
    (proc[p].op = "getSession" /\ proc[p].pc = "done" /\ hist[p].fetches = 0) =>
      hist[p].start = "within"

\* C9, amended: getSession returns the cache without a fetch only when
\* now - lastUpdated <= 5 minutes (a session exactly 5 minutes old is still
\* returned from the cache), and whenever now - lastUpdated > 5 minutes it
\* makes a session fetch before it returns.
C9_Amended ==
  \A p \in Procs :
    LET st == proc[p]
        h  == hist[p]
    IN  st.op = "getSession" =>
          /\ (st.pc = "done" /\ h.fetches = 0) =>
               /\ h.start \in {"within", "edge"}
               /\ sessionState # None
               /\ now - sessionState[1].lastUpdated <= TTL
               /\ st.result = Succeed(sessionState[1].session)
          /\ h.start \in {"beyond", "absent"} => h.fetches = 1

\* a session exactly five minutes old has been returned from the cache
C9_Witness ==
  \E p \in Procs :
    /\ proc[p].op = "getSession" /\ proc[p].pc = "done"
    /\ hist[p].fetches = 0 /\ hist[p].start = "edge"
    /\ now - sessionState[1].lastUpdated = TTL

\* C10: when an API exchange receives a 401, the call has ended with an
\* authentication error (the POST is not attempted again) and the cache is
\* absent; and the call that follows finds the cache absent: a getSession
\* makes a session fetch, and so does the first exchange of a batch, before
\* any POST.
C10_Invalidate ==
  \A p \in Procs :
    LET st == proc[p]
        h  == hist[p]
    IN  /\ h.got401 =>
             /\ st.pc = "done"
             /\ st.result = AuthenticationError("Bearer token expired or invalid")
             /\ sessionState = None
        /\ (h.after = "api401" /\ st.op = "getSession") =>
             /\ h.start = "absent"
             /\ h.fetches = 1
        /\ (h.after = "api401" /\ h.exchanges >= 1) => h.fetches >= 1

\* inside what would have been the freshness window of any session, the
\* getSession that follows a 401 of the API has fetched a session
C10_Witness ==
  \E p \in Procs :
    /\ proc[p].op = "getSession" /\ proc[p].pc = "done"
    /\ hist[p].after = "api401"
    /\ now < TTL
    /\ hist[p].fetches = 1 /\ proc[p].result.kind = "ok"

\* ------------------------------------------------------------------ C11
\* C11: after an HTTP 401 response from the session endpoint the session cache
\* is absent, whatever it held before the fetch.
C11_Session401Clears ==
  \A p \in Procs :
    ( /\ proc[p].pc = "done"
      /\ hist[p].last.endpoint = "session"
      /\ hist[p].last.event = "response"
      /\ hist[p].last.status = 401 )
    => sessionState = None

\* ------------------------------------------------------------------ C12
\* the call of fiber p ended with the failure f of its exchange
FailedWith(p, f) ==
  /\ proc[p].pc = "done"
  /\ hist[p].failed
  /\ hist[p].failure = f
  /\ proc[p].result = f
  /\ f.kind = "fail"

\* C12: a session fetch fails with exactly one error kind, determined by the
\* response: 401 gives an authentication error, any other status but 200 a
\* network error carrying that status, a 200 body that is not parsable JSON a
\* network error, and a 200 body that is JSON of another shape than Session
\* a session error, never a network error; a Session makes no failure.
C12_SessionFetchErrors ==
  \A p \in Procs :
    LET e == hist[p].last
        f == hist[p].failure
    IN  (e.endpoint = "session" /\ e.event = "response") =>
          IF e.status = 401
          THEN FailedWith(p, f) /\ f.tag = "AuthenticationError"
          ELSE IF e.status # 200
          THEN FailedWith(p, f) /\ f.tag = "NetworkError"
               /\ f.status = Some(e.status)
          ELSE IF e.kind \in {"unreadable", "notJSON"}
          THEN FailedWith(p, f) /\ f.tag = "NetworkError" /\ f.status = None
          ELSE IF e.kind = "badShape"
          THEN FailedWith(p, f) /\ f.tag = "SessionError"
          ELSE ~hist[p].failed

\* a getSession call ended by a 200 body that is JSON with no apiUrl
C12_Witness ==
  \E p \in Procs :
    /\ proc[p].op = "getSession"
    /\ hist[p].last = [endpoint |-> "session", event |-> "response",
                       status |-> 200, kind |-> "badShape"]
    /\ proc[p].result.tag = "SessionError"

\* ------------------------------------------------------------------ C13
\* C13: an API exchange whose response is not a valid 200 envelope fails with
\* exactly one error kind: 401 gives an authentication error, any other
\* status but 200 (other 2xx included) a network error carrying that status,
\* a 200 body that is not parsable JSON or not of the Response shape a network
\* error; the call ends there, with no POST in flight: none is retried.
C13_ApiExchangeErrors ==
  \A p \in Procs :
    LET e == hist[p].last
        f == hist[p].failure
    IN  ( /\ e.endpoint = "api"
          /\ e.event = "response"
          /\ ~(e.status = 200 /\ e.kind = "envelope") ) =>
          /\ FailedWith(p, f)
          /\ hist[p].inflight = 0
          /\ Len(hist[p].posts) = hist[p].exchanges
          /\ IF e.status = 401 THEN f.tag = "AuthenticationError"
             ELSE IF e.status # 200
             THEN f.tag = "NetworkError" /\ f.status = Some(e.status)
             ELSE f.tag = "NetworkError" /\ f.status = None

\* a batch call ended by a 201 of the API endpoint
C13_Witness ==
  \E p \in Procs :
    /\ proc[p].op = "batch"
    /\ hist[p].last = [endpoint |-> "api", event |-> "response",
                       status |-> 201, kind |-> "none"]
    /\ proc[p].result = NetworkError("HTTP", Some(201))

\* ------------------------------------------------------------------ C14
\* the endpoint of the HTTP exchange fiber p is suspended at
Pending(p) ==
  IF proc[p].pc = "sessGet" THEN "session"
  ELSE IF proc[p].pc = "apiPost" THEN "api"
  ELSE "none"

\* C14: in every HTTP exchange a further attempt is under way only after the
\* previous attempt of that exchange failed at transport level; at most
\* maxRetries attempts follow the first one, and when the last of them has
\* failed too the call ends with a network error; once a response has been
\* received or a method error detected, no further attempt of that exchange
\* is made.
C14_RetryDiscipline ==
  \A p \in Procs :
    LET st == proc[p]
        h  == hist[p]
        e  == h.last
    IN  /\ st.attempt <= Max(maxRetries, 0)
        /\ (Pending(p) # "none" /\ st.attempt > 0) =>
             (e.event = "transport" /\ e.endpoint = Pending(p))
        /\ (e.event = "transport" /\ Pending(p) = "none") =>
             /\ st.attempt = maxRetries
             /\ FailedWith(p, h.failure)
             /\ h.failure.tag = "NetworkError"
             /\ h.failure.status = None
        /\ (e.event = "response" /\ e.endpoint = "session") =>
             /\ st.pc # "sessGet"
             /\ st.pc = "apiPost" => st.attempt = 0
        /\ (e.event = "response" /\ e.endpoint = "api" /\ Pending(p) # "none") =>
             /\ st.attempt = 0
             /\ h.exchanges = h.returned + 1
        /\ h.failure.tag = "JMAPMethodError" =>
             (st.pc = "done" /\ h.inflight = 0 /\ e.event = "response")

\* a POST given up after its first attempt and at least one retry
C14_Witness ==
  \E p \in Procs :
    /\ maxRetries >= 1
    /\ proc[p].pc = "done"
    /\ proc[p].attempt = maxRetries
    /\ hist[p].last = TransportFailure("api")
    /\ proc[p].result = NetworkError("Failed to send JMAP request", None)

\* ------------------------------------------------------------------ C15
\* the invocations of the extracted Response that carry both the method name
\* and the call id asked for, and the first of them
Matching ==
  IF extraction.response.methodResponses = None THEN {}
  ELSE LET mrs == extraction.response.methodResponses[1]
       IN  { k \in 1..Len(mrs) : /\ mrs[k][1] = extraction.methodName
                                 /\ mrs[k][3] = extraction.callId }

FirstMatching == CHOOSE k \in Matching : \A j \in Matching : k <= j

Extracted ==
  extraction.out # NoResult /\ extraction.response.methodResponses # None

\* C15 as stated: with no matching invocation the extraction fails with a
\* method error of type notFound, with a matching invocation whose result
\* does not validate with one of type serverFail; both carry the call id.
C15_Original ==
  Extracted =>
    LET out == extraction.out
        mrs == extraction.response.methodResponses[1]
    IN  /\ Matching = {} =>
             /\ out.kind = "fail" /\ out.tag = "JMAPMethodError"
             /\ out.type = "notFound"
             /\ out.callId = Some(extraction.callId)
        /\ (Matching # {} /\ ~mrs[FirstMatching][2].valid) =>
             /\ out.kind = "fail" /\ out.tag = "JMAPMethodError"
             /\ out.type = "serverFail"
             /\ out.callId = Some(extraction.callId)

\* C15, amended: both failures are method errors of type serverFail carrying
\* the call id asked for; they differ in the description only, which says
\* that the method response was not found for the method name, or that the
\* response format is invalid.
C15_Amended ==
  Extracted =>
    LET out == extraction.out
        mrs == extraction.response.methodResponses[1]
    IN  /\ Matching = {} =>
             /\ out.kind = "fail" /\ out.tag = "JMAPMethodError"
             /\ out.type = "serverFail"
             /\ out.description = << "Method response not found for",
                                     extraction.methodName >>
             /\ out.callId = Some(extraction.callId)
        /\ (Matching # {} /\ ~mrs[FirstMatching][2].valid) =>
             /\ out.kind = "fail" /\ out.tag = "JMAPMethodError"
             /\ out.type = "serverFail"
             /\ out.description = << "Invalid response format" >>
             /\ out.callId = Some(extraction.callId)

\* an extraction from a list that has the method name under another call id
C15_Witness ==
  /\ Extracted
  /\ Matching = {}
  /\ \E k \in 1..Len(extraction.response.methodResponses[1]) :
       extraction.response.methodResponses[1][k][1] = extraction.methodName
  /\ extraction.out.type = "serverFail"

\* ------------------------------------------------------------------ C16
\* C16: the extraction succeeds exactly when an invocation with both the
\* method name and the call id is present and the result of the first such
\* invocation validates; it returns the decoded result of that invocation,
\* not that of one matching the name only or the call id only.
C16_ExtractFirstMatch ==
  extraction.out # NoResult =>
    LET out == extraction.out
    IN  IF Matching # {}
           /\ extraction.response.methodResponses[1][FirstMatching][2].valid
        THEN /\ out.kind = "ok"
             /\ out.value = Some([decoded |->
                  extraction.response.methodResponses[1][FirstMatching][2].data])
        ELSE out.kind = "fail"

\* a success from a list whose first invocation has the call id under another
\* method name and whose second has both, with another result
C16_Witness ==
  /\ Extracted
  /\ extraction.out.kind = "ok"
  /\ LET mrs == extraction.response.methodResponses[1]
     IN  /\ Len(mrs) = 2
         /\ FirstMatching = 2
         /\ mrs[1][3] = extraction.callId
         /\ mrs[1][2].valid
         /\ mrs[1][2].data # mrs[2][2].data

ValidConfig ==
  /\ config.sessionUrl # ""
  /\ config.bearerToken # ""
  /\ maxBatchSize >= 1
  /\ maxRetries >= 0

\* C18: a client that takes calls was built from a valid setup (an invalid
\* one is rejected at construction), and no problem of the configuration
\* shows in a call: the chunk loop builds no more chunks than there are calls.
C18_ConfigurationRejected ==
  \A p \in Procs :
    proc[p].op # "none" =>
      /\ ValidConfig
      /\ Len(proc[p].chunks) <= Len(proc[p].methodCalls)

\* ------------------------------------------------------------------ C19
\* C19: every HTTP request sent, the session GETs and the API POSTs, carries
\* Authorization: Bearer <configured token> and Content-Type:
\* application/json.
C19_Headers ==
  \A p \in Procs :
    \A r \in { hist[p].gets[k] : k \in 1..Len(hist[p].gets) }
               \cup { hist[p].posts[k] : k \in 1..Len(hist[p].posts) } :
      /\ r.headers.Authorization = << "Bearer", config.bearerToken >>
      /\ r.headers.ContentType = "application/json"

\* ------------------------------------------------------------------ C20
\* C20: every session request is a GET to exactly the configured session URL
\* and every API request a POST to exactly the apiUrl of the Session obtained
\* for the exchange; no option of the configuration adds to the URL.
C20_Urls ==
  \A p \in Procs :
    LET h == hist[p]
    IN  /\ \A k \in 1..Len(h.gets) :
             /\ h.gets[k].method = "GET"
             /\ h.gets[k].url = config.sessionUrl
             /\ h.gets[k].urlParams = <<>>
        /\ \A k \in 1..Len(h.posts) :
             /\ h.posts[k].method = "POST"
             /\ h.posts[k].url \in { s.apiUrl : s \in Sessions }
             /\ h.posts[k].urlParams = <<>>
        /\ (proc[p].pc = "apiPost") =>
             h.posts[Len(h.posts)].url = proc[p].session[1].apiUrl

\* ------------------------------------------------------------------ C21
\* C21: every method error a call ends with has a type of the closed
\* enumeration of error types, whatever payload the "error" invocation
\* carried.
C21_ClosedEnumeration ==
  \A p \in Procs :
    proc[p].result.tag = "JMAPMethodError" =>
      proc[p].result.type \in MethodErrorType

\* ------------------------------------------------------------------ C25
\* C25: when the envelope of an exchange holds several "error" invocations,
\* the call fails with the method error made from the first of them in the
\* order of the response, its type and its call id; the others are not
\* reported.
C25_FirstOfSeveral ==
  \A p \in Procs :
    hist[p].envelope # None =>
      LET mrs == hist[p].envelope[1].methodResponses
          E   == ErrorPositions(mrs)
      IN  Cardinality(E) >= 2 =>
            \E k \in E :
              /\ \A j \in E : k <= j
              /\ FailedWith(p, hist[p].failure)
              /\ proc[p].result.tag = "JMAPMethodError"
              /\ proc[p].result.type = mrs[k][2].type
              /\ proc[p].result.callId = Some(mrs[k][3])
              /\ \A j \in E \ {k} :
                   /\ proc[p].result.type # mrs[j][2].type
                   /\ proc[p].result.callId # Some(mrs[j][3])

\* a batch ended by an envelope with two "error" invocations, the first of
\* which answers a later call than the second
C25_Witness ==
  \E p \in Procs :
    /\ proc[p].pc = "done"
    /\ hist[p].envelope # None
    /\ LET mrs == hist[p].envelope[1].methodResponses
       IN  /\ Cardinality(ErrorPositions(mrs)) = 2
           /\ \E k \in ErrorPositions(mrs) :
                /\ mrs[k][2].type = "serverFail"
                /\ \A j \in ErrorPositions(mrs) : k <= j
           /\ proc[p].result.type = "serverFail"

\* ------------------------------------------------------------------ C22
\* C22: a request call makes one API exchange and no more, never chunked,
\* whose POST carries the Request as it was given, however many calls it
\* holds; a 401, another status, a bad body and an "error" invocation end it
\* as they end batch, and only an envelope that passed them is decoded.
C22_RequestOneExchange ==
  \A p \in Procs :
    LET st == proc[p]
        h  == hist[p]
        e  == h.last
    IN  st.op = "request" =>
          /\ ~st.chunked /\ st.chunks = <<>>
          /\ h.exchanges = 1
          /\ Len(h.posts) <= 1
          /\ \A k \in 1..Len(h.posts) : h.posts[k].body = st.req[1]
          /\ (st.pc = "done" /\ e.endpoint = "api") => Len(h.posts) = 1
          /\ (e.endpoint = "api" /\ e.event = "response") =>
               IF e.status = 401
               THEN /\ st.result = AuthenticationError("Bearer token expired or invalid")
                    /\ sessionState = None
               ELSE IF e.status # 200
               THEN st.result = NetworkError("HTTP", Some(e.status))
               ELSE IF e.kind # "envelope"
               THEN st.result.tag = "NetworkError" /\ st.result.status = None
               ELSE LET mrs == h.envelope[1].methodResponses
                        E   == ErrorPositions(mrs)
                    IN  IF E # {}
                        THEN st.result.kind \in {"fail", "die"}
                             /\ st.result.tag \in {"JMAPMethodError", "Defect"}
                             /\ (st.result.tag = "JMAPMethodError" =>
                                   \E k \in E : /\ \A j \in E : k <= j
                                                /\ st.result.callId = Some(mrs[k][3]))
                        ELSE IF st.schema = "Response"
                                \/ h.envelope[1].createdIds # None
                        THEN /\ st.result.kind = "ok"
                             /\ st.result.value[1].decoded = h.envelope[1]
                        ELSE st.result = NetworkError(
                               "Response does not match expected schema", None)

\* a request with createdIds and more calls than maxBatchSize has ended well
\* after one POST
C22_Witness ==
  \E p \in Procs :
    /\ proc[p].op = "request" /\ proc[p].pc = "done"
    /\ proc[p].result.kind = "ok"
    /\ config.maxBatchSize # None
    /\ maxBatchSize >= 1
    /\ Len(proc[p].req[1].methodCalls) > maxBatchSize
    /\ proc[p].req[1].createdIds # None
    /\ Len(hist[p].posts) = 1

\* ------------------------------------------------------------------ C23
\* the Session the fetch of fiber p has just produced, in the state after the
\* step that received it
Produced(st) ==
  IF st.op = "getSession" THEN st.result.value ELSE st.session

\* C23: under any interleaving of getSession, request and batch calls the
\* cache is absent or holds a Session with a timestamp, and whenever it takes
\* a new entry, that entry is, in one step, the Session a fiber's session
\* fetch has just produced together with the time of that step; a getSession
\* served from the cache returns the Session of the entry it found.
C23_WholeEntry ==
  /\ [](sessionState = None
        \/ ( /\ sessionState[1].session \in Sessions
             /\ sessionState[1].lastUpdated \in 0..now ))
  /\ [][ /\ (sessionState' # sessionState /\ sessionState' # None) =>
              \E p \in Procs :
                /\ proc[p].pc = "sessGet"
                /\ hist'[p].last = [endpoint |-> "session", event |-> "response",
                                    status |-> 200, kind |-> "session"]
                /\ sessionState'[1].session \in Sessions
                /\ Produced(proc'[p]) = Some(sessionState'[1].session)
                /\ sessionState'[1].lastUpdated = now
         /\ \A p \in Procs :
              ( /\ proc[p].pc = "idle" /\ proc'[p].op = "getSession"
                /\ proc'[p].pc = "done" ) =>
                /\ sessionState # None
                /\ proc'[p].result = Succeed(sessionState[1].session)
                /\ sessionState' = sessionState ]_vars

\* two fibers are in exchanges sent with different Sessions, each from its
\* own fetch, and the cache holds the one fetched last, after minute 0
C23_Witness ==
  /\ proc[1].pc = "apiPost" /\ proc[2].pc = "apiPost"
  /\ hist[1].fetches = 1 /\ hist[2].fetches = 1
  /\ proc[1].session # proc[2].session
  /\ sessionState # None
  /\ sessionState[1].session = proc[2].session[1]
  /\ sessionState[1].lastUpdated = 1

\* ------------------------------------------------------------------ C24
\* the HTTP event the step of fiber p is: a response or a transport failure
\* of the exchange it was suspended at, NoEvent for any other step
EventOf(p) ==
  IF proc[p].pc \in {"sessGet", "apiPost"}
     /\ (proc'[p] # proc[p] \/ hist'[p] # hist[p])
  THEN hist'[p].last
  ELSE NoEvent

\* C24: the cache changes in two ways only: a session fetch that succeeds
\* replaces it, and an HTTP 401 sets it to absent; every other step leaves it
\* as it was.
C24_OnlyTwoWays ==
  [][ \A p \in Callers :
        LET e == EventOf(p)
        IN  IF e.event = "response" /\ e.status = 401
            THEN sessionState' = None
            ELSE IF e = [endpoint |-> "session", event |-> "response",
                         status |-> 200, kind |-> "session"]
            THEN /\ sessionState' # None
                 /\ Produced(proc'[p]) = Some(sessionState'[1].session)
                 /\ sessionState'[1].lastUpdated = now
            ELSE sessionState' = sessionState ]_vars

\* what holds of the cache whatever the session endpoint's 401 does: a step
\* that is neither a successful session fetch nor a 401 of the API leaves the
\* cache as it was
CacheFrame ==
  [][ \A p \in Callers :
        LET e == EventOf(p)
        IN  ( /\ ~(e.endpoint = "api" /\ e.event = "response" /\ e.status = 401)
              /\ e # [endpoint |-> "session", event |-> "response",
                      status |-> 200, kind |-> "session"] ) =>
            sessionState' = sessionState ]_vars

\* C26: batch terminates for every methodCalls list and every integer
\* maxBatchSize. The loop that builds the chunk list adds the same step to its
\* index at every iteration, so it ends if and only if it ends within
\* methodCalls.length iterations: a batch that terminates has never built
\* more chunks than it has method calls.
C26_ChunkLoopEnds ==
  \A p \in Callers : Len(proc[p].chunks) <= Len(proc[p].methodCalls)

\* ------------------------------------------------------------------ C27
\* C27: when calls overlap, an HTTP 401 answering an API exchange that was
\* sent with one session leaves the cache as it is when the cache holds a
\* different session, stored by a session fetch that completed while the
\* exchange was in flight.
C27_KeepsLaterSession ==
  [][ \A p \in Procs :
        ( /\ EventOf(p) = [endpoint |-> "api", event |-> "response",
                           status |-> 401, kind |-> "none"]
          /\ sessionState # None
          /\ proc[p].session # Some(sessionState[1].session) )
        => sessionState' = sessionState ]_vars

\* ------------------------------------------------------------------ C28
\* C28: when two getSession calls overlap while the cache is absent or
\* stale, one session fetch is issued and both callers wait for it: at no time
\* are two session fetches pending.
C28_OneFetchPending ==
  Cardinality({ p \in Procs : proc[p].pc = "sessGet" }) <= 1

\* ------------------------------------------------------------------ C29
\* the mailbox the k-th create sent to the server, and the key it sent it under
SentBy(k) == CHOOSE e \in hierarchy.issued[k][2].create : TRUE

\* the k-th create was answered with a mailbox created under the key it sent
Made(k) ==
  LET out == hierarchy.returned[k]
  IN  /\ out.kind = "ok"
      /\ out.value[1].created # None
      /\ \E e \in out.value[1].created[1] : e.key = SentBy(k).key

\* the mailbox the server returned for the k-th create
ServerMailbox(k) ==
  (CHOOSE e \in hierarchy.returned[k].value[1].created[1] :
     e.key = SentBy(k).key).value

\* C29: createHierarchy issues one Mailbox/set create per path element, in
\* path order, each after the previous one has returned; the first has
\* parentId null, every later one the id the server returned for the previous
\* element; it returns the mailboxes the server created, in path order; once
\* a create has failed no further create is issued and the call fails.
C29_CreateHierarchy ==
  LET h == hierarchy
      n == Len(h.issued)
      m == Len(h.returned)
  IN  h.pc # "none" =>
        /\ n <= Len(h.path)
        /\ n = IF h.pc = "set" THEN m + 1 ELSE m
        /\ \A k \in 1..n :
             /\ h.issued[k][1] = "Mailbox/set"
             /\ h.issued[k][2].accountId = h.accountId
             /\ Cardinality(h.issued[k][2].create) = 1
             /\ SentBy(k).value.name = h.path[k]
             /\ SentBy(k).value.parentId =
                  IF k = 1 THEN None ELSE Some(ServerMailbox(k - 1).id)
        /\ \A k \in 1..m : ~Made(k) => (n = k /\ h.pc = "done")
        /\ h.pc = "done" =>
             IF \A k \in 1..m : Made(k)
             THEN /\ m = Len(h.path)
                  /\ h.result = Succeed([k \in 1..m |-> ServerMailbox(k)])
             ELSE h.result.kind = "fail"

C29_Witness ==
  /\ hierarchy.pc = "done"
  /\ Len(hierarchy.path) = MaxPath
  /\ hierarchy.result.kind = "ok"
  /\ Len(hierarchy.result.value[1]) = MaxPath
  /\ hierarchy.result.value[1][1].id # hierarchy.result.value[1][2].id

\* ------------------------------------------------------------------ C30
\* C30: getDepth and getAncestors terminate for every mailbox and every
\* list, and getDepth returns the number of ancestors getAncestors returns.
\* Each iteration is determined by the current mailbox alone, so a walk that
\* ends takes no list element twice: getAncestors has never more ancestors
\* than the list has elements, and getDepth has never counted more than one
\* step from the mailbox and one from each list element.
C30_WalksEndAndAgree ==
  /\ walk.getDepth.depth <= Len(walk.allMailboxes) + 1
  /\ Len(walk.getAncestors.ancestors) <= Len(walk.allMailboxes)
  /\ (walk.getDepth.pc = "done" /\ walk.getAncestors.pc = "done")
       => walk.getDepth.depth = Len(walk.getAncestors.ancestors)

====
